---- MODULE Spec2Model ----
(***************************************************************************)
(* A model of the mixture-model notebook post.ipynb: the synthetic data    *)
(* generator, the log-probability function handed to the ensemble sampler, *)
(* the burn-in / reset / production driver and the posterior summarizer.   *)
(*                                                                         *)
(* Reals are fixed-point integers: the real r is the integer r * ONE.      *)
(* -inf, +inf and NaN are the three sentinels NegInf, PosInf and NaN, and  *)
(* the arithmetic below treats them as IEEE arithmetic does.               *)
(***************************************************************************)
EXTENDS Integers, Sequences, FiniteSets

VARIABLES
    pc,         \* position in the notebook
    rng,        \* state of numpy's global random generator
    x, y, yerr, \* the observations (cell 1)
    m_bkg,      \* the outlier mask (cell 1)
    ylin,       \* history: y as line 58 left it, before outliers are injected
    replaced,   \* history: the indices lines 63-64 assigned
    first,      \* history: what the previous run of cell 1 produced
    nrun,       \* history: how many runs of cell 1 have finished
    theta, res, \* an argument of lnprob and what lnprob returned for it
    walkers,    \* the ensemble's current state: per walker (theta, lp, blob)
    store,      \* sampler.chain / sampler.blobs: one row per stored step
    iteration,  \* steps taken by the sampler since it was built
    state,      \* line 254: what the burn-in run returned
    rejSeen,    \* history: some lnprob evaluation was rejected by the prior
    norm, post_prob, \* the summarizer's accumulators (cell 5)
    visited,    \* history: the (step, walker) pairs the last run of cell 5 read
    nsum,       \* history: how many runs of cell 5 have finished
    prev_post   \* history: post_prob of the previous run of cell 5

vars == <<pc, rng, x, y, yerr, m_bkg, ylin, replaced, first, nrun, theta, res,
          walkers, store, iteration, state, rejSeen, norm, post_prob, visited, nsum,
          prev_post>>

dataVars == <<rng, x, y, yerr, m_bkg, ylin, replaced, first, nrun>>
evalVars == <<theta, res>>
samplerVars == <<walkers, store, iteration, state, rejSeen>>
sumVars == <<norm, post_prob, visited, nsum, prev_post>>

----------------------------------------------------------------------------
(* Bounds of the model. *)

\* number of observations (15 in the notebook, line 56)
K == 3
\* number of walkers (32 in the notebook, line 246)
nwalkers == 2
\* length of the burn-in run (500 in the notebook, line 254)
NBurn == 2
\* length of the production run (1500 in the notebook, line 258)
NProd == 3
\* how often cell 1 is run
MaxRuns == 2
\* how often cell 5 is run
MaxSums == 2

----------------------------------------------------------------------------
(* Fixed-point reals. *)

ONE == 10 ^ 3

NegInf == -1000000000
PosInf == 1000000000
NaN == 2000000000

Ln2 == (693147 * ONE) \div 1000000

isfinite(v) == v # NegInf /\ v # PosInf /\ v # NaN

\* a + b
FAdd(a, b) ==
    IF a = NaN \/ b = NaN THEN NaN
    ELSE IF (a = NegInf /\ b = PosInf) \/ (a = PosInf /\ b = NegInf) THEN NaN
    ELSE IF a = NegInf \/ b = NegInf THEN NegInf
    ELSE IF a = PosInf \/ b = PosInf THEN PosInf
    ELSE a + b

\* -a
FNeg(a) ==
    IF a = NaN THEN NaN
    ELSE IF a = NegInf THEN PosInf
    ELSE IF a = PosInf THEN NegInf
    ELSE 0 - a

\* a - b
FSub(a, b) == FAdd(a, FNeg(b))

\* a * b of two finite reals
FMul(a, b) == (a * b) \div ONE

\* a / b of two finite reals, b > 0
FDiv(a, b) == (a * ONE) \div b

RECURSIVE Pow2(_)
Pow2(n) == IF n = 0 THEN 1 ELSE 2 * Pow2(n - 1)

\* exp of a finite real: 2^n * exp(r) with t = n ln2 + r and 0 <= r < ln2
ExpFinite(t) ==
    LET n == t \div Ln2
        r == t - n * Ln2
        t1 == r
        t2 == (t1 * r) \div (2 * ONE)
        t3 == (t2 * r) \div (3 * ONE)
        t4 == (t3 * r) \div (4 * ONE)
        t5 == (t4 * r) \div (5 * ONE)
        e == ONE + t1 + t2 + t3 + t4 + t5
    IN  IF n >= 0 THEN e * Pow2(n)
        ELSE IF n < -30 THEN 0
        ELSE e \div Pow2(0 - n)

\* np.exp
Exp(t) ==
    IF t = NaN THEN NaN
    ELSE IF t = NegInf THEN 0
    ELSE IF t = PosInf THEN PosInf
    ELSE ExpFinite(t)

\* v = m * 2^k with ONE <= m < 2 ONE: <<m, k>>
RECURSIVE Normalise(_, _)
Normalise(v, k) ==
    IF v >= 2 * ONE THEN Normalise(v \div 2, k + 1)
    ELSE IF v < ONE THEN Normalise(v * 2, k - 1)
    ELSE <<v, k>>

\* log of a finite real v > 0: k ln2 + 2 atanh((m - 1) / (m + 1))
LogPositive(v) ==
    LET mk == Normalise(v, 0)
        m == mk[1]
        z == ((m - ONE) * ONE) \div (m + ONE)
        z2 == (z * z) \div ONE
        z3 == (z * z2) \div ONE
        z5 == (z3 * z2) \div ONE
        z7 == (z5 * z2) \div ONE
    IN  mk[2] * Ln2 + 2 * (z + z3 \div 3 + z5 \div 5 + z7 \div 7)

\* np.log
Log(v) ==
    IF v = NaN THEN NaN
    ELSE IF v = PosInf THEN PosInf
    ELSE IF v < 0 THEN NaN
    ELSE IF v = 0 THEN NegInf
    ELSE LogPositive(v)

\* np.log1p
Log1p(v) == Log(FAdd(ONE, v))

\* np.sqrt of a finite real v >= 0
Sqrt(v) == CHOOSE r \in 0..(v + ONE) : r * r <= v * ONE /\ v * ONE < (r + 1) * (r + 1)

\* the larger term alone, in place of np.logaddexp
logaddexp_max(a, b) ==
    IF a = NaN \/ b = NaN THEN NaN
    ELSE IF a >= b THEN a ELSE b

\* np.logaddexp, as numpy's npy_logaddexp computes it
logaddexp(a, b) ==
    IF a = NaN \/ b = NaN THEN NaN
    ELSE IF a = b THEN FAdd(a, Ln2)
    ELSE IF a = PosInf \/ b = PosInf THEN PosInf
    ELSE IF a = NegInf THEN b
    ELSE IF b = NegInf THEN a
    ELSE IF a - b > 0 THEN a + Log1p(Exp(b - a))
    ELSE b + Log1p(Exp(a - b))

\* the sum of a sequence of reals (np.sum)
RECURSIVE FSum(_)
FSum(s) == IF s = <<>> THEN 0 ELSE FAdd(Head(s), FSum(Tail(s)))

----------------------------------------------------------------------------
(* Cell 1: the synthetic data generator. *)

true_frac == (8 * ONE) \div 10
true_params == <<ONE, 0>>
true_outliers == <<0, ONE>>
seed == 12

\* numpy's generator, as a linear congruential generator on RngMod states
RngMod == 64
RngMul == 13
RngInc == 7
RngStates == 0..(RngMod - 1)

\* np.random.seed
RngSeed(s) == s % RngMod

RngNext(s) == (RngMul * s + RngInc) % RngMod

\* the next n raw draws after state s, and the state they leave
RECURSIVE RngDraws(_, _)
RngDraws(s, n) ==
    IF n = 0 THEN <<>> ELSE <<RngNext(s)>> \o RngDraws(RngNext(s), n - 1)

RECURSIVE RngAfter(_, _)
RngAfter(s, n) == IF n = 0 THEN s ELSE RngAfter(RngNext(s), n - 1)

\* np.random.uniform(lo, hi), np.random.randn, np.random.rand of one raw draw
uniform(lo, hi, raw) == lo + ((hi - lo) * raw) \div RngMod
randn(raw) == (((raw % 9) - 4) * ONE) \div 2
rand(raw) == (raw * ONE) \div RngMod

\* np.sort: insertion sort, ascending
RECURSIVE Insert(_, _)
Insert(v, s) ==
    IF s = <<>> THEN <<v>>
    ELSE IF v <= Head(s) THEN <<v>> \o s
    ELSE <<Head(s)>> \o Insert(v, Tail(s))

RECURSIVE sort(_)
sort(s) == IF s = <<>> THEN <<>> ELSE Insert(Head(s), sort(Tail(s)))

\* line 56: x = np.sort(np.random.uniform(-2, 2, 15))
GenX(s) ==
    LET raw == RngDraws(s, K)
    IN  sort([k \in 1..K |-> uniform(0 - 2 * ONE, 2 * ONE, raw[k])])

\* line 57: yerr = 0.2 * np.ones_like(x)
GenYerr(xs) == [k \in 1..Len(xs) |-> FMul((2 * ONE) \div 10, ONE)]

\* line 58: y = true_params[0] * x + true_params[1] + yerr * np.random.randn(len(x))
GenY(s, xs, errs) ==
    LET raw == RngDraws(s, Len(xs))
    IN  [k \in 1..Len(xs) |->
            FMul(true_params[1], xs[k]) + true_params[2] + FMul(errs[k], randn(raw[k]))]

\* line 62: m_bkg = np.random.rand(len(x)) > true_frac
GenMask(s, xs) ==
    LET raw == RngDraws(s, Len(xs))
    IN  [k \in 1..Len(xs) |-> rand(raw[k]) > true_frac]

\* the indices a boolean mask selects, and the rank of a selected index among them
Selected(mask) == {k \in 1..Len(mask) : mask[k]}
Rank(mask, k) == Cardinality({j \in Selected(mask) : j <= k})

\* lines 63-64: y[m_bkg] = true_outliers[0]
\*              y[m_bkg] += np.sqrt(true_outliers[1] + yerr[m_bkg] ** 2) * np.random.randn(sum(m_bkg))
GenOutliers(s, ys, errs, mask) ==
    LET raw == RngDraws(s, Cardinality(Selected(mask)))
    IN  [k \in 1..Len(ys) |->
            IF k \in Selected(mask)
            THEN true_outliers[1]
                 + FMul(Sqrt(true_outliers[2] + FMul(errs[k], errs[k])),
                        randn(raw[Rank(mask, k)]))
            ELSE ys[k]]

\* the whole cell (lines 55-64): what it leaves in x, yerr, y, m_bkg and the generator
Cell1 ==
    LET s0 == RngSeed(seed)
        xs == GenX(s0)
        s1 == RngAfter(s0, K)
        errs == GenYerr(xs)
        y0 == GenY(s1, xs, errs)
        s2 == RngAfter(s1, K)
        mask == GenMask(s2, xs)
        s3 == RngAfter(s2, K)
    IN  [x |-> xs, yerr |-> errs, ylin |-> y0, m_bkg |-> mask,
         y |-> GenOutliers(s3, y0, errs, mask),
         rng |-> RngAfter(s3, Cardinality(Selected(mask)))]

\* cell 1 without its line 55: the generator is left as it is
SeedSkipped ==
    /\ pc = "seed"
    /\ rng' = rng
    /\ pc' = "draw_x"
    /\ UNCHANGED <<x, y, yerr, m_bkg, ylin, replaced, first, nrun>>
    /\ UNCHANGED <<evalVars, samplerVars, sumVars>>

\* line 55: np.random.seed(12)
Seed ==
    /\ pc = "seed"
    /\ rng' = RngSeed(seed)
    /\ pc' = "draw_x"
    /\ UNCHANGED <<x, y, yerr, m_bkg, ylin, replaced, first, nrun>>
    /\ UNCHANGED <<evalVars, samplerVars, sumVars>>

\* line 56
DrawX ==
    /\ pc = "draw_x"
    /\ x' = GenX(rng)
    /\ rng' = RngAfter(rng, K)
    /\ pc' = "draw_y"
    /\ UNCHANGED <<y, yerr, m_bkg, ylin, replaced, first, nrun>>
    /\ UNCHANGED <<evalVars, samplerVars, sumVars>>

\* lines 57-58
DrawY ==
    /\ pc = "draw_y"
    /\ yerr' = GenYerr(x)
    /\ y' = GenY(rng, x, yerr')
    /\ ylin' = y'
    /\ rng' = RngAfter(rng, Len(x))
    /\ pc' = "draw_mask"
    /\ UNCHANGED <<x, m_bkg, replaced, first, nrun>>
    /\ UNCHANGED <<evalVars, samplerVars, sumVars>>

\* line 62
DrawMask ==
    /\ pc = "draw_mask"
    /\ m_bkg' = GenMask(rng, x)
    /\ rng' = RngAfter(rng, Len(x))
    /\ pc' = "outliers"
    /\ UNCHANGED <<x, y, yerr, ylin, replaced, first, nrun>>
    /\ UNCHANGED <<evalVars, samplerVars, sumVars>>

\* lines 63-64
Outliers ==
    /\ pc = "outliers"
    /\ y' = GenOutliers(rng, y, yerr, m_bkg)
    /\ replaced' = Selected(m_bkg)
    /\ rng' = RngAfter(rng, Cardinality(Selected(m_bkg)))
    /\ nrun' = nrun + 1
    /\ pc' = "generated"
    /\ UNCHANGED <<x, yerr, m_bkg, ylin, first>>
    /\ UNCHANGED <<evalVars, samplerVars, sumVars>>

\* The rest of the notebook runs (line 248 draws from the same generator, leaving it
\* in some other state) and cell 1 is run again.
RunAgain ==
    /\ pc = "generated"
    /\ nrun < MaxRuns
    /\ first' = [x |-> x, y |-> y, m_bkg |-> m_bkg]
    /\ \E s \in RngStates : rng' = s
    /\ pc' = "seed"
    /\ UNCHANGED <<x, y, yerr, m_bkg, ylin, replaced, nrun>>
    /\ UNCHANGED <<evalVars, samplerVars, sumVars>>

----------------------------------------------------------------------------
(* Cell 3: the probabilistic model. *)

ndim == 5

\* line 195
bounds ==
    << <<(1 * ONE) \div 10, (19 * ONE) \div 10>>,
       <<0 - (9 * ONE) \div 10, (9 * ONE) \div 10>>,
       <<0, ONE>>,
       <<0 - (24 * ONE) \div 10, (24 * ONE) \div 10>>,
       <<0 - (72 * ONE) \div 10, (52 * ONE) \div 10>> >>

\* zip(p, bounds) stops at the shorter of the two
ZipLen(p, b) == IF Len(p) <= Len(b) THEN Len(p) ELSE Len(b)

\* lnprior with any() for all(): it rejects only a theta with every component
\* off its interval
lnprior_any(p) ==
    IF \A i \in 1..ZipLen(p, bounds) : ~(bounds[i][1] < p[i] /\ p[i] < bounds[i][2])
    THEN NegInf
    ELSE 0

\* lnprior with <= for <: it accepts a theta on a bound
lnprior_closed(p) ==
    IF ~(\A i \in 1..ZipLen(p, bounds) : bounds[i][1] <= p[i] /\ p[i] <= bounds[i][2])
    THEN NegInf
    ELSE 0

\* lines 198-202
lnprior(p) ==
    IF ~(\A i \in 1..ZipLen(p, bounds) : bounds[i][1] < p[i] /\ p[i] < bounds[i][2])
    THEN NegInf
    ELSE 0

\* lines 206-209
lnlike_fg(p) ==
    [k \in 1..Len(x) |->
        LET model == FMul(p[1], x[k]) + p[2]
            q == FDiv(model - y[k], yerr[k])
        IN  FNeg(FAdd(FMul(q, q), 2 * Log(yerr[k])) \div 2)]

\* line 215: var = np.exp(lnV) + yerr**2
bg_var(p) == [k \in 1..Len(yerr) |-> FAdd(Exp(p[5]), FMul(yerr[k], yerr[k]))]

\* lines 213-216
lnlike_bg(p) ==
    LET var == bg_var(p)
    IN  [k \in 1..Len(y) |->
            LET d == p[4] - y[k]
            IN  FNeg(FAdd(FDiv(FMul(d, d), var[k]), Log(var[k])) \div 2)]

\* np.zeros_like(y)
zeros_like(v) == [k \in 1..Len(v) |-> 0]

\* lines 220-242. Besides the three values returned (lp, arg1, arg2) the record
\* keeps what the evaluation took the logarithm of (log_args: Q and 1 - Q) and the
\* background variances it formed (var); both are empty when the prior rejects.
lnprob(p) ==
    LET Q == p[3]
        lp == lnprior(p)
    IN  IF ~isfinite(lp)
        THEN [lp |-> NegInf, arg1 |-> zeros_like(y), arg2 |-> zeros_like(y),
              log_args |-> <<>>, var |-> <<>>]
        ELSE LET ll_fg == lnlike_fg(p)
                 arg1 == [k \in 1..Len(y) |-> FAdd(ll_fg[k], Log(Q))]
                 ll_bg == lnlike_bg(p)
                 arg2 == [k \in 1..Len(y) |-> FAdd(ll_bg[k], Log(FSub(ONE, Q)))]
                 ll == FSum([k \in 1..Len(y) |-> logaddexp(arg1[k], arg2[k])])
             IN  [lp |-> FAdd(lp, ll), arg1 |-> arg1, arg2 |-> arg2,
                  log_args |-> <<Q, FSub(ONE, Q)>>, var |-> bg_var(p)]

----------------------------------------------------------------------------
(* The specification of one evaluation of lnprob, for any theta of a grid that  *)
(* has, in every component, a value below the lower bound, the lower bound,     *)
(* three values inside (one next to each bound and the middle), the upper bound *)
(* and a value above it.                                                        *)

Step == ONE \div 10

Sides(i) ==
    {bounds[i][1] - Step, bounds[i][1], bounds[i][1] + Step,
     (bounds[i][1] + bounds[i][2]) \div 2,
     bounds[i][2] - Step, bounds[i][2], bounds[i][2] + Step}

ThetaGrid ==
    {<<m, b, Q, M, lnV>> : m \in Sides(1), b \in Sides(2), Q \in Sides(3),
                           M \in Sides(4), lnV \in Sides(5)}

NoResult == [lp |-> NaN, arg1 |-> <<>>, arg2 |-> <<>>, log_args |-> <<>>, var |-> <<>>]
NoTheta == <<>>
NoWalkers == <<>>

InitData ==
    /\ rng = Cell1.rng
    /\ x = Cell1.x
    /\ y = Cell1.y
    /\ yerr = Cell1.yerr
    /\ m_bkg = Cell1.m_bkg
    /\ ylin = Cell1.ylin
    /\ replaced = Selected(Cell1.m_bkg)
    /\ first = [x |-> <<>>, y |-> <<>>, m_bkg |-> <<>>]
    /\ nrun = 1

InitSampler ==
    /\ walkers = NoWalkers
    /\ store = <<>>
    /\ iteration = 0
    /\ state = NoWalkers
    /\ rejSeen = FALSE

InitSummary ==
    /\ norm = 0
    /\ post_prob = <<>>
    /\ visited = <<>>
    /\ nsum = 0
    /\ prev_post = <<>>

InitEval ==
    /\ pc = "eval"
    /\ InitData
    /\ theta \in ThetaGrid
    /\ res = NoResult
    /\ InitSampler
    /\ InitSummary

\* a call lnprob(theta)
Evaluate ==
    /\ pc = "eval"
    /\ res' = lnprob(theta)
    /\ pc' = "evaluated"
    /\ UNCHANGED <<theta, dataVars, samplerVars, sumVars>>

NextEval == Evaluate

SpecEval == InitEval /\ [][NextEval]_vars

----------------------------------------------------------------------------
(* The specification of cell 1 run MaxRuns times, each time from whatever state *)
(* the other cells left numpy's generator in.                                   *)

InitGen ==
    /\ pc = "seed"
    /\ rng \in RngStates
    /\ x = <<>>
    /\ y = <<>>
    /\ yerr = <<>>
    /\ m_bkg = <<>>
    /\ ylin = <<>>
    /\ replaced = {}
    /\ first = [x |-> <<>>, y |-> <<>>, m_bkg |-> <<>>]
    /\ nrun = 0
    /\ theta = NoTheta
    /\ res = NoResult
    /\ InitSampler
    /\ InitSummary

NextGen == Seed \/ DrawX \/ DrawY \/ DrawMask \/ Outliers \/ RunAgain

SpecGen == InitGen /\ [][NextGen]_vars

----------------------------------------------------------------------------
(* Cell 3, lines 246-258: the sampler driver. The ensemble sampler is a library: *)
(* a step proposes a new position for every walker, calls lnprob once on each    *)
(* proposal, accepts or rejects it, and appends the ensemble (position,          *)
(* log-probability and blob of every walker) to its store.                       *)

Walkers == 1..nwalkers

\* line 247: p0 = np.array([1.0, 0.0, 0.7, 0.0, np.log(2.0)])
p0 == <<ONE, 0, (7 * ONE) \div 10, 0, Log(2 * ONE)>>

\* line 248: 1e-5 * np.random.randn(ndim) is at most one unit of the fixed-point grid
Perturbations == {<<0, 0, 0, 0, 0>>, <<1, -1, 1, -1, 1>>}

\* the positions a move proposes: one inside the bounds, one with Q above its upper
\* bound and one with m below its lower bound
Proposals ==
    {<<(11 * ONE) \div 10, ONE \div 10, (8 * ONE) \div 10, 0 - ONE \div 10, ONE \div 2>>,
     <<(11 * ONE) \div 10, ONE \div 10, (105 * ONE) \div 100, 0 - ONE \div 10, ONE \div 2>>,
     <<(5 * ONE) \div 100, 0 - ONE \div 10, (6 * ONE) \div 10, (2 * ONE) \div 10, ONE>>}

\* a walker's state after lnprob(q) returned r: position, log-probability, blob
Walker(q, r) == [theta |-> q, lp |-> r.lp, arg1 |-> r.arg1, arg2 |-> r.arg2]

\* an acceptance test that forgets the log-probability -inf
AcceptsAnything(r) == BOOLEAN

\* the acceptance test lnpdiff > log(u) after lnprob returned r: a proposal of
\* log-probability -inf (or NaN) is never accepted; any other is or is not,
\* depending on the uniform draw u
Accepts(r) == IF r.lp = NegInf \/ r.lp = NaN THEN {FALSE} ELSE BOOLEAN

\* an update that keeps the blob of the proposal even when the proposal is rejected
UpdateKeepsLastBlob(w, q, r, accepted) ==
    IF accepted THEN Walker(q, r) ELSE [w EXCEPT !.arg1 = r.arg1, !.arg2 = r.arg2]

\* one walker's update: it moves to the proposal q, evaluated as r, if accepted
Update(w, q, r, accepted) == IF accepted THEN Walker(q, r) ELSE w

\* the row the store gets for an ensemble, at the sampler's step n
Row(ens, n) == [w \in Walkers |-> [theta |-> ens[w].theta, lp |-> ens[w].lp,
                                   arg1 |-> ens[w].arg1, arg2 |-> ens[w].arg2,
                                   step |-> n]]

\* a store that keeps the last row only
SavedOverLast(st, row) == <<row>>

\* the store after a step's row is saved
Saved(st, row) == Append(st, row)

\* one step of the sampler from the ensemble ens: lnprob is called once on each
\* proposal q, returning r, and the proposal is accepted or not
SamplerStep(ens) ==
    LET moves == UNION {{[q |-> q, r |-> r, accepted |-> a] : a \in Accepts(r)} :
                           <<q, r>> \in {<<t, lnprob(t)>> : t \in Proposals}}
    IN  \E mv \in [Walkers -> moves] :
            /\ walkers' = [w \in Walkers |->
                               Update(ens[w], mv[w].q, mv[w].r, mv[w].accepted)]
            /\ iteration' = iteration + 1
            /\ store' = Saved(store, Row(walkers', iteration'))
            /\ rejSeen' = (rejSeen \/ \E w \in Walkers : mv[w].r.lp = NegInf)

\* lines 246-251 and the start of line 254: the walkers are placed around p0 and
\* run_mcmc evaluates lnprob at each of them
Initialize ==
    /\ pc = "start"
    /\ \E e \in [Walkers -> Perturbations] :
         LET q == [w \in Walkers |-> [i \in 1..ndim |-> p0[i] + e[w][i]]]
         IN  /\ walkers' = [w \in Walkers |-> Walker(q[w], lnprob(q[w]))]
             /\ rejSeen' = \E w \in Walkers : lnprob(q[w]).lp = NegInf
    /\ pc' = "burnin"
    /\ UNCHANGED <<store, iteration, state>>
    /\ UNCHANGED <<dataVars, evalVars, sumVars>>

\* line 254: state = sampler.run_mcmc(p0, 500), one step of it
BurnStep ==
    /\ pc = "burnin"
    /\ SamplerStep(walkers)
    /\ IF iteration' = NBurn
       THEN state' = walkers' /\ pc' = "burned"
       ELSE UNCHANGED <<state, pc>>
    /\ UNCHANGED <<dataVars, evalVars, sumVars>>

\* the driver without its line 257: the store is left as it is
ResetSkipped ==
    /\ pc = "burned"
    /\ store' = store
    /\ pc' = "reset"
    /\ UNCHANGED <<walkers, iteration, state, rejSeen>>
    /\ UNCHANGED <<dataVars, evalVars, sumVars>>

\* line 257: sampler.reset()
Reset ==
    /\ pc = "burned"
    /\ store' = <<>>
    /\ pc' = "reset"
    /\ UNCHANGED <<walkers, iteration, state, rejSeen>>
    /\ UNCHANGED <<dataVars, evalVars, sumVars>>

\* line 258: sampler.run_mcmc(state, 1500), one step of it
ProdStep ==
    /\ pc \in {"reset", "production"}
    /\ SamplerStep(IF pc = "reset" THEN state ELSE walkers)
    /\ pc' = IF Len(store') = NProd THEN "sampled" ELSE "production"
    /\ UNCHANGED state
    /\ UNCHANGED <<dataVars, evalVars, sumVars>>

----------------------------------------------------------------------------
(* Cell 5, lines 372-379: the posterior summarizer. *)

\* sampler.chain.shape: (nwalkers, steps stored, ndim)
chain_shape == <<nwalkers, Len(store), ndim>>

\* sampler.blobs[i][j]
blobs(i, j) == <<store[i][j].arg1, store[i][j].arg2>>

\* the odds exp(ll_fg - ll_bg) in place of the probability
membership_odds(ll_fg, ll_bg) == Exp(FSub(ll_fg, ll_bg))

\* line 377: np.exp(ll_fg - np.logaddexp(ll_fg, ll_bg)), one component of it
membership(ll_fg, ll_bg) == Exp(FSub(ll_fg, logaddexp(ll_fg, ll_bg)))

\* cell 5 without its lines 372-373: a later run starts from what the last one left
SumStartStale ==
    IF nsum = 0 THEN [norm |-> 0, post_prob |-> zeros_like(x)]
    ELSE [norm |-> norm, post_prob |-> post_prob]

\* lines 372-373
SumStart == [norm |-> 0, post_prob |-> zeros_like(x)]

\* an outer loop that stops one step short
LoopOrderShort ==
    [n \in 1..((chain_shape[2] - 1) * chain_shape[1]) |->
        <<((n - 1) \div chain_shape[1]) + 1, ((n - 1) % chain_shape[1]) + 1>>]

\* lines 374-375: the (i, j) the two loops go through, in order
LoopOrder ==
    [n \in 1..(chain_shape[2] * chain_shape[1]) |->
        <<((n - 1) \div chain_shape[1]) + 1, ((n - 1) % chain_shape[1]) + 1>>]

\* lines 376-378: the loop body for each (i, j) of todo, from the accumulators acc
RECURSIVE Accumulate(_, _)
Accumulate(acc, todo) ==
    IF todo = <<>> THEN acc
    ELSE LET b == blobs(Head(todo)[1], Head(todo)[2])
             ll_fg == b[1]
             ll_bg == b[2]
         IN  Accumulate(
                 [norm |-> acc.norm + 1,
                  post_prob |-> [k \in 1..Len(acc.post_prob) |->
                      FAdd(acc.post_prob[k], membership(ll_fg[k], ll_bg[k]))]],
                 Tail(todo))

\* line 379: post_prob /= norm
Normalised(acc) ==
    [k \in 1..Len(acc.post_prob) |->
        IF acc.norm = 0 THEN NaN
        ELSE IF ~isfinite(acc.post_prob[k]) THEN acc.post_prob[k]
        ELSE acc.post_prob[k] \div acc.norm]

\* the cell
Summarize ==
    /\ pc \in {"sampled", "summarized"}
    /\ nsum < MaxSums
    /\ LET acc == Accumulate(SumStart, LoopOrder)
       IN  /\ norm' = acc.norm
           /\ post_prob' = Normalised(acc)
    /\ visited' = LoopOrder
    /\ prev_post' = post_prob
    /\ nsum' = nsum + 1
    /\ pc' = "summarized"
    /\ UNCHANGED <<dataVars, evalVars, samplerVars>>

----------------------------------------------------------------------------
(* The specification of the notebook run from cell 3 on, on the data of cell 1. *)

Init ==
    /\ pc = "start"
    /\ InitData
    /\ theta = NoTheta
    /\ res = NoResult
    /\ InitSampler
    /\ InitSummary

Next == Initialize \/ BurnStep \/ Reset \/ ProdStep \/ Summarize

Spec == Init /\ [][Next]_vars

----------------------------------------------------------------------------
(* Properties of lnprob, in SpecEval. *)

Inside(p, i) == bounds[i][1] < p[i] /\ p[i] < bounds[i][2]
Beyond(p, i) == p[i] < bounds[i][1] \/ p[i] > bounds[i][2]

\* C1: a theta with some component beyond its bound gets the log-probability -inf
\* exactly, whatever its other components are.
OutsideIsMinusInfinity ==
    (pc = "evaluated" /\ \E i \in 1..ndim : Beyond(theta, i)) => res.lp = NegInf

\* an evaluation of a theta whose Q alone is beyond its bound
OutsideIsMinusInfinity_Witness ==
    /\ pc = "evaluated"
    /\ Beyond(theta, 3)
    /\ \A i \in (1..ndim) \ {3} : Inside(theta, i)
    /\ res.lp = NegInf

\* C9: an evaluation that passes the prior check has 0 < Q < 1, takes the logarithm
\* of Q and of 1 - Q only, both strictly positive, and forms a strictly positive
\* background variance for every observation; a rejected one takes no logarithm.
LogsAndVariancesPositive ==
    pc = "evaluated" =>
        IF res.lp = NegInf
        THEN res.log_args = <<>> /\ res.var = <<>>
        ELSE /\ 0 < theta[3] /\ theta[3] < ONE
             /\ res.log_args = <<theta[3], ONE - theta[3]>>
             /\ \A i \in 1..Len(res.log_args) : res.log_args[i] > 0
             /\ Len(res.var) = K
             /\ \A k \in 1..K : res.var[k] > 0

\* an accepted evaluation at the smallest lnV of the grid, and so the smallest variance
LogsAndVariancesPositive_Witness ==
    /\ pc = "evaluated"
    /\ res.lp # NegInf
    /\ theta[5] = bounds[5][1] + Step
    /\ theta[3] = bounds[3][1] + Step
    /\ Len(res.var) = K

\* A non-negative real in linear space, held as <<m, e>> for m * 2^e with
\* ONE <= m < 2 ONE, or <<0, 0>> for zero: the exponent keeps the range the
\* fixed point lacks, so that a density as small as exp(-700) is not zero.
LinZero == <<0, 0>>

\* the real v >= 0
LinOf(v) == IF v = 0 THEN LinZero ELSE Normalise(v, 0)

\* exp(t), t finite or -inf
LinExp(t) ==
    IF t = NegInf THEN LinZero
    ELSE LET n == t \div Ln2
             r == t - n * Ln2
         IN  Normalise(ExpFinite(r), n)

\* a * b
LinMul(a, b) ==
    IF a[1] = 0 \/ b[1] = 0 THEN LinZero
    ELSE Normalise((a[1] * b[1]) \div ONE, a[2] + b[2])

\* a + b
LinAdd(a, b) ==
    IF a[1] = 0 THEN b
    ELSE IF b[1] = 0 THEN a
    ELSE LET hi == IF a[2] >= b[2] THEN a ELSE b
             lo == IF a[2] >= b[2] THEN b ELSE a
             d == hi[2] - lo[2]
         IN  IF d > 30 THEN hi ELSE Normalise(hi[1] + lo[1] \div Pow2(d), hi[2])

\* log(a)
LinLog(a) == IF a[1] = 0 THEN NegInf ELSE a[2] * Ln2 + LogPositive(a[1])

\* log(Q p_fg + (1 - Q) p_bg) of observation k, computed in linear space from the
\* two densities p_fg = exp(ll_fg) and p_bg = exp(ll_bg)
LinearMixture(p, k) ==
    LET Q == p[3]
        p_fg == LinExp(lnlike_fg(p)[k])
        p_bg == LinExp(lnlike_bg(p)[k])
    IN  LinLog(LinAdd(LinMul(LinOf(Q), p_fg), LinMul(LinOf(ONE - Q), p_bg)))

\* the tolerance of the comparison: a hundredth, in log space
Tol == ONE \div 100

Abs(v) == IF v < 0 THEN 0 - v ELSE v

\* the per-point values that line 237 sums
PerPoint(r) == [k \in 1..Len(r.arg1) |-> logaddexp(r.arg1[k], r.arg2[k])]

\* C11: for a theta inside the bounds, the per-point value logaddexp(arg1, arg2)
\* of every observation is, within the tolerance, the logarithm of the mixture
\* Q p_fg + (1 - Q) p_bg computed in linear space, and the log-probability
\* returned is the log-prior 0 plus the sum of the per-point values.
LogSumExpIsLinearMixture ==
    (pc = "evaluated" /\ \A i \in 1..ndim : Inside(theta, i)) =>
        /\ Len(res.arg1) = K /\ Len(res.arg2) = K
        /\ \A k \in 1..K :
             /\ isfinite(PerPoint(res)[k])
             /\ Abs(PerPoint(res)[k] - LinearMixture(theta, k)) <= Tol
        /\ res.lp = FAdd(0, FSum(PerPoint(res)))

\* an evaluation inside the bounds with an observation whose two terms are within
\* one of each other, and an observation whose foreground density is below exp(-20)
LogSumExpIsLinearMixture_Witness ==
    /\ pc = "evaluated"
    /\ \A i \in 1..ndim : Inside(theta, i)
    /\ isfinite(res.lp)
    /\ \E k \in 1..K : Abs(res.arg1[k] - res.arg2[k]) < ONE
    /\ \E k \in 1..K : res.arg1[k] < 0 - 20 * ONE

OnBound(p, i) == p[i] = bounds[i][1] \/ p[i] = bounds[i][2]

----------------------------------------------------------------------------
(* Properties of the data generator, in SpecGen. *)

\* C10: a run of cell 1 produces the same x, y and mask as the run before it; x is
\* sorted ascending; the mask marks exactly the points lines 63-64 replaced, and an
\* unmarked point keeps the y of line 58.
GeneratorDeterministic ==
    pc = "generated" =>
        /\ nrun >= 2 => (x = first.x /\ y = first.y /\ m_bkg = first.m_bkg)
        /\ Len(x) = K /\ Len(y) = K /\ Len(m_bkg) = K
        /\ \A k \in 1..(K - 1) : x[k] <= x[k + 1]
        /\ \A k \in 1..K : (k \in replaced) <=> m_bkg[k]
        /\ \A k \in 1..K : ~m_bkg[k] => y[k] = ylin[k]

\* a second run has finished, with a marked and an unmarked point
GeneratorDeterministic_Witness ==
    /\ pc = "generated"
    /\ nrun = 2
    /\ first.x = x
    /\ \E k \in 1..K : m_bkg[k] /\ y[k] # ylin[k]
    /\ \E k \in 1..K : ~m_bkg[k]

----------------------------------------------------------------------------
(* Properties of the sampling run and of the summarizer, in Spec. *)

\* the (step, walker) places of the store
Records == {<<i, w>> : i \in 1..Len(store), w \in Walkers}

\* the positions the store holds
StoredThetas == {store[r[1]][r[2]].theta : r \in Records}

\* the pair lnprob makes for theta t when the prior accepts it
PairOf(t) ==
    <<[k \in 1..K |-> FAdd(lnlike_fg(t)[k], Log(t[3]))],
      [k \in 1..K |-> FAdd(lnlike_bg(t)[k], Log(FSub(ONE, t[3])))]>>

\* C2: no record of the store comes from an evaluation the prior rejected (its
\* log-probability is not -inf and its theta is inside the bounds), and the
\* summarizer reads records of the store only.
NoRejectedPairStored ==
    /\ \A r \in Records :
         /\ store[r[1]][r[2]].lp # NegInf
         /\ \A i \in 1..ndim : Inside(store[r[1]][r[2]].theta, i)
    /\ \A n \in 1..Len(visited) : visited[n] \in Records

\* the prior has rejected an evaluation, and the summarizer has read the store
NoRejectedPairStored_Witness ==
    /\ rejSeen
    /\ pc = "summarized"
    /\ Len(visited) = NProd * nwalkers

\* C3: the pair stored in a record is the pair of lnprob for the record's own theta.
StoredPairIsOfOwnTheta ==
    \A t \in StoredThetas :
        LET pair == PairOf(t)
        IN  \A r \in Records :
                store[r[1]][r[2]].theta = t =>
                    <<store[r[1]][r[2]].arg1, store[r[1]][r[2]].arg2>> = pair

\* a walker that is still where it was placed after two steps of the production run
\* (every proposal made for it was rejected), after the prior rejected some proposal
StoredPairIsOfOwnTheta_Witness ==
    /\ rejSeen
    /\ Len(store) >= 2
    /\ \E w \in Walkers :
         /\ store[Len(store)][w].theta \notin Proposals
         /\ store[Len(store)][w].theta = store[Len(store) - 1][w].theta

\* the store keeps every row it has
KeepsRows ==
    /\ Len(store') >= Len(store)
    /\ \A i \in 1..Len(store) : store'[i] = store[i]

\* C4, as claimed: from the first step to the last no operation removes a record.
AppendOnlyThroughout == [][KeepsRows]_vars

\* C4, amended: within the burn-in run and within the production run the store only
\* grows; sampler.reset(), between the two, is the one operation that removes rows.
AppendOnlyWithinRun == [][(pc # "burned") => KeepsRows]_vars

\* the production run has appended a second row
AppendOnlyWithinRun_Witness ==
    /\ pc = "production"
    /\ Len(store) >= 2

\* C5: burn-in and production run in this order and for their fixed lengths, the
\* production run starts from what the burn-in returned, and at the end the store
\* holds one record per walker for each production step and none of the burn-in.
TwoPhases ==
    /\ pc = "burnin" => iteration < NBurn /\ Len(store) = iteration
    /\ pc \in {"burned", "reset"} => iteration = NBurn /\ state = walkers
    /\ pc = "burned" => Len(store) = NBurn
    /\ pc = "reset" => store = <<>>
    /\ pc = "production" => Len(store) = iteration - NBurn /\ Len(store) < NProd
    /\ pc \in {"sampled", "summarized"} =>
         /\ iteration = NBurn + NProd
         /\ Len(store) = NProd
         /\ Cardinality(Records) = NProd * nwalkers
         /\ \A i \in 1..Len(store) :
              /\ DOMAIN store[i] = Walkers
              /\ \A w \in Walkers : store[i][w].step = NBurn + i

\* the pipeline has finished sampling
TwoPhases_Witness ==
    /\ pc = "sampled"
    /\ Len(store) = NProd
    /\ store[1][1].step = NBurn + 1

\* the sum of the membership values of observation k over the records S
RECURSIVE MembershipSum(_, _)
MembershipSum(S, k) ==
    IF S = {} THEN 0
    ELSE LET r == CHOOSE r \in S : TRUE
         IN  membership(store[r[1]][r[2]].arg1[k], store[r[1]][r[2]].arg2[k])
             + MembershipSum(S \ {r}, k)

\* C6: the summarizer reads every record exactly once, norm is the number of
\* records, and post_prob[k] is the mean of the records' membership values of k.
MeanOverAllRecords ==
    pc = "summarized" =>
        /\ norm = Cardinality(Records)
        /\ Len(visited) = Cardinality(Records)
        /\ \A r \in Records : Cardinality({n \in 1..Len(visited) : visited[n] = r}) = 1
        /\ Len(post_prob) = K
        /\ \A k \in 1..K : post_prob[k] = MembershipSum(Records, k) \div Cardinality(Records)

\* the summarizer has run over a store whose records differ
MeanOverAllRecords_Witness ==
    /\ pc = "summarized"
    /\ Cardinality(StoredThetas) >= 2
    /\ norm = NProd * nwalkers

\* C7: every component of post_prob, and every term added to it, is in [0, 1].
MembershipInUnitInterval ==
    pc = "summarized" =>
        /\ \A k \in 1..K : 0 <= post_prob[k] /\ post_prob[k] <= ONE
        /\ \A r \in Records : \A k \in 1..K :
             LET term == membership(store[r[1]][r[2]].arg1[k], store[r[1]][r[2]].arg2[k])
             IN  0 <= term /\ term <= ONE

\* the summarizer has run and found an observation likely in the foreground and one
\* likely in the background
MembershipInUnitInterval_Witness ==
    /\ pc = "summarized"
    /\ \E k \in 1..K : post_prob[k] > ONE \div 2
    /\ \E k \in 1..K : post_prob[k] < ONE \div 2

\* C8: a second run of the summarizer returns the post_prob of the first, and no run
\* of it changes the store.
SummarizerIdempotent ==
    /\ []((pc = "summarized" /\ nsum >= 2) => (post_prob = prev_post))
    /\ [][(pc \in {"sampled", "summarized"}) => (store' = store)]_vars

\* the summarizer has run twice
SummarizerIdempotent_Witness ==
    /\ pc = "summarized"
    /\ nsum = 2
    /\ post_prob = prev_post
    /\ \E k \in 1..K : post_prob[k] > 0

====
